---- MODULE Spec2Model ----
(***************************************************************************)
(* Session/auth store of the school-management frontend                    *)
(* (src/features/auth/slices/authSlice.js) together with the two browser   *)
(* storage scopes it persists to and the backend session it talks to.      *)
(*                                                                         *)
(* JavaScript values are tagged records, so that null, undefined, false    *)
(* and the empty string stay distinct and `||` / truthiness can be         *)
(* computed as the language computes them.  A string is a sequence of      *)
(* tokens: the empty string is << >>, join(' ') interleaves a " " token.   *)
(***************************************************************************)
EXTENDS Integers, Sequences, FiniteSets, TLC

\* The field names of the records below, in the order every record lists them.
FieldOrder ==
  DOMAIN [ability |-> {}, account |-> {}, action |-> {}, after |-> {}, answered |-> {},
          arg |-> {}, at |-> {}, auth |-> {}, data |-> {}, direction |-> {},
          email |-> {}, error |-> {}, errors |-> {}, fetching |-> {},
          filteredSecteurs |-> {}, filters |-> {}, had |-> {}, id |-> {},
          intitule |-> {}, isAuthenticated |-> {}, isDeleteModalOpen |-> {},
          isModalOpen |-> {}, key |-> {}, kind |-> {}, local |-> {},
          localErrors |-> {}, message |-> {}, method |-> {}, name |-> {}, ok |-> {},
          op |-> {}, options |-> {}, password |-> {}, payload |-> {}, pc |-> {},
          permissions |-> {}, phase |-> {}, reload |-> {},
          rememberMe |-> {}, response |-> {},
          roles |-> {}, rules |-> {}, searchTerm |-> {}, secteur |-> {},
          secteurToDelete |-> {}, secteurs |-> {}, selectedSecteur |-> {},
          session |-> {}, sortConfig |-> {}, st |-> {}, stale |-> {}, status |-> {},
          subject |-> {}, submitted |-> {}, t |-> {}, text |-> {}, type |-> {},
          url |-> {}, user |-> {}, v |-> {}, value |-> {}, values |-> {},
          view |-> {}, viewMode |-> {}]

\* The async thunks of the slice.
ThunkNames == {"signup", "login", "checkAuth", "logoutUser"}

\* Number of auth thunks that may be in flight at once (the store does not
\* prevent overlapping dispatches).
MaxThunks == 2

VARIABLES
  auth,            \* the slice state: user, isAuthenticated, rememberMe, status, error
  localStorage,    \* durable scope: key -> item text or Null
  sessionStorage,  \* tab-scoped scope: key -> item text or Null
  thunks,          \* the async thunks in flight
  srvUser,         \* backend: the account bound to the session cookie, or NoAccount
  srvRoutes,       \* backend: the profile routes this deployment serves
  last,            \* history: the most recent event
  app,             \* the App shell: the Ability in effect, its permissions fetch
  form,            \* the LoginForm: its local errors and the data last submitted
  view,            \* the secteurs view-model: the state of useSecteursLogic
  calls,           \* the SecteursService calls in flight, in the order issued
  srvSecteurs,     \* backend: the secteurs table
  shown            \* history: what a call surfaced when the last step settled it

vars == <<auth, localStorage, sessionStorage, thunks, srvUser, srvRoutes, last, app, form,
          view, calls, srvSecteurs, shown>>

\* The secteurs page and its backend table.
page == <<view, calls, srvSecteurs, shown>>

\* The state outside the store.
shell == <<app, form, view, calls, srvSecteurs, shown>>

\* The session store, its storage and its backend.
store == <<auth, localStorage, sessionStorage, thunks, srvUser, srvRoutes, last>>

-----------------------------------------------------------------------------
(* JavaScript values *)

Undefined == [t |-> "undefined"]
Null == [t |-> "null"]
Bool(b) == [t |-> "bool", v |-> b]
Str(s) == [t |-> "str", v |-> s]
Arr(a) == [t |-> "arr", v |-> a]
Num(n) == [t |-> "num", v |-> n]

\* ToBoolean
Truthy(x) ==
  CASE x.t = "bool" -> x.v
    [] x.t = "str" -> x.v # << >>
    [] x.t = "num" -> x.v # 0
    [] x.t \in {"undefined", "null"} -> FALSE
    [] OTHER -> TRUE

\* a || b
Or(a, b) == IF Truthy(a) THEN a ELSE b

\* JSON.stringify: undefined has no JSON text
JSONstringify(x) == IF x.t = "undefined" THEN Undefined ELSE [t |-> "json", v |-> x]

\* Storage.setItem stores String(value): the text "undefined" when handed undefined
ToItem(x) == IF x.t = "json" THEN x ELSE [t |-> "raw", v |-> x.t]

\* JSON.parse: a text that is not JSON throws
JSONparseThrows(item) == item.t # "json"
JSONparse(item) == item.v

-----------------------------------------------------------------------------
(* Storage keys and helpers *)

USER == "user"
REMEMBER_ME == "remember_me"
STORAGE_KEYS == {USER, REMEMBER_ME}

EmptyStorage == [k \in STORAGE_KEYS |-> Null]

\* The pair of scopes, passed through the helpers as one value.
Stores(l, s) == [local |-> l, session |-> s]

getStorage(rememberMe) == IF Truthy(rememberMe) THEN "local" ELSE "session"

getStorageItem(st, key, rememberMe) ==
  LET item == st[getStorage(rememberMe)][key]
  IN IF ~Truthy(item) THEN Null
     ELSE IF JSONparseThrows(item) THEN Null
     ELSE JSONparse(item)

setStorageItem(st, key, value, rememberMe) ==
  [st EXCEPT ![getStorage(rememberMe)][key] = ToItem(JSONstringify(value))]

removeStorageItem(st, key, rememberMe) ==
  [st EXCEPT ![getStorage(rememberMe)][key] = Null]

-----------------------------------------------------------------------------
(* Strings and error objects *)

Text(w) == Str(<<w>>)
EmptyString == Str(<< >>)

SIGNUP_FAILED == Text("Signup failed. Please try again.")
LOGIN_FAILED == Text("Login failed. Please check your credentials.")
LOGOUT_FAILED == Text("Logout failed.")
SIGNUP_NO_USER == Text("User data not found after signup.")
LOGIN_NO_USER == Text("User data not found after login.")
NOT_AUTHENTICATED == Text("User not authenticated.")
UNKNOWN_ERROR == Text("An unknown error occurred.")
CSRF_FAILED == Text("Failed to obtain CSRF token.")

\* Array.prototype.flat(): one level
RECURSIVE Flat(_)
Flat(xs) ==
  IF xs = << >> THEN << >>
  ELSE (IF Head(xs).t = "arr" THEN Head(xs).v ELSE <<Head(xs)>>) \o Flat(Tail(xs))

\* .filter(msg => typeof msg === 'string')
RECURSIVE FilterStrings(_)
FilterStrings(xs) ==
  IF xs = << >> THEN << >>
  ELSE (IF Head(xs).t = "str" THEN <<Head(xs)>> ELSE << >>) \o FilterStrings(Tail(xs))

\* .join(' ') of an array of strings
RECURSIVE JoinTokens(_)
JoinTokens(xs) ==
  IF xs = << >> THEN << >>
  ELSE IF Len(xs) = 1 THEN Head(xs).v
  ELSE Head(xs).v \o <<" ">> \o JoinTokens(Tail(xs))

Join(xs) == Str(JoinTokens(xs))

\* An axios error: the response (undefined when none was received) and the
\* Error's own message.
AxiosError(data, message) ==
  [message |-> message,
   response |-> IF data.t = "undefined" THEN Undefined ELSE [data |-> data, t |-> "obj"]]

\* A Laravel error body: `errors` is the object's values in insertion order.
Body(errors, message) == [errors |-> errors, message |-> message, t |-> "obj"]
ErrorsObj(values) == [t |-> "obj", values |-> values]

\* The body's general message read before its validation errors.
getLaravelErrorMessage_messageFirst(error, defaultMessage) ==
  LET data == IF error.response.t = "undefined" THEN Undefined ELSE error.response.data
  IN IF Truthy(data) /\ Truthy(data.message)
       THEN data.message
     ELSE IF Truthy(data) /\ Truthy(data.errors)
       THEN Join(FilterStrings(Flat(data.errors.values)))
     ELSE Or(error.message, defaultMessage)

\* The fallback taken without reading the Error's own message.
getLaravelErrorMessage_ignoresMessage(error, defaultMessage) ==
  LET data == IF error.response.t = "undefined" THEN Undefined ELSE error.response.data
  IN IF Truthy(data) /\ Truthy(data.errors)
       THEN Join(FilterStrings(Flat(data.errors.values)))
     ELSE IF Truthy(data) /\ Truthy(data.message)
       THEN data.message
     ELSE defaultMessage

getLaravelErrorMessage(error, defaultMessage) ==
  LET data == IF error.response.t = "undefined" THEN Undefined ELSE error.response.data
  IN IF Truthy(data) /\ Truthy(data.errors)
       THEN Join(FilterStrings(Flat(data.errors.values)))
     ELSE IF Truthy(data) /\ Truthy(data.message)
       THEN data.message
     ELSE Or(error.message, defaultMessage)

-----------------------------------------------------------------------------
(* User data *)

prepareUserData(laravelUser) ==
  IF ~Truthy(laravelUser) THEN Null
  ELSE [email |-> laravelUser.email,
        id |-> laravelUser.id,
        name |-> laravelUser.name,
        permissions |-> Or(laravelUser.permissions, Arr(<< >>)),
        roles |-> Or(laravelUser.roles, Arr(<< >>)),
        t |-> "obj"]

-----------------------------------------------------------------------------
(* The slice: initial state and reducers *)

initialRememberMe(st) == Or(getStorageItem(st, REMEMBER_ME, Bool(TRUE)), Bool(FALSE))
initialUser(st) == getStorageItem(st, USER, initialRememberMe(st))

initialState(st) ==
  [error |-> Null,
   isAuthenticated |-> Truthy(initialUser(st)),
   rememberMe |-> initialRememberMe(st),
   status |-> "idle",
   user |-> initialUser(st)]

\* A "world" is the slice state with the two storage scopes: logoutClient is a
\* reducer that also writes storage.
World(a, st) == [auth |-> a, st |-> st]

\* logoutClient that leaves the tab-scoped user record behind
logoutClient_keepsTabUser(w) ==
  LET s1 == removeStorageItem(w.st, USER, Bool(TRUE))
      s3 == removeStorageItem(s1, REMEMBER_ME, Undefined)
  IN World([error |-> Null, isAuthenticated |-> FALSE, rememberMe |-> Bool(FALSE),
            status |-> "idle", user |-> Null],
           s3)

logoutClient(w) ==
  LET s1 == removeStorageItem(w.st, USER, Bool(TRUE))
      s2 == removeStorageItem(s1, USER, Bool(FALSE))
      s3 == removeStorageItem(s2, REMEMBER_ME, Undefined)
  IN World([error |-> Null, isAuthenticated |-> FALSE, rememberMe |-> Bool(FALSE),
            status |-> "idle", user |-> Null],
           s3)

\* clearError that also resets the status
clearError_resetsStatus(state) == [state EXCEPT !.error = Null, !.status = "idle"]

clearError(state) == [state EXCEPT !.error = Null]

checkAuthFulfilled(state, payload) ==
  [state EXCEPT !.status = "succeeded",
                !.user = payload.user,
                !.isAuthenticated = TRUE,
                !.rememberMe = payload.rememberMe,
                !.error = Null]

logoutUserFulfilled(state) == [state EXCEPT !.status = "idle", !.error = Null]

pending(state) == [state EXCEPT !.status = "loading", !.error = Null]

loginSignupFulfilled(state, payload) ==
  [state EXCEPT !.status = "succeeded",
                !.user = payload.user,
                !.isAuthenticated = TRUE,
                !.rememberMe = payload.rememberMe]

\* rejected matcher that leaves the rememberMe preference as it was
rejected_keepsRememberMe(state, op, payload) ==
  LET s1 == [state EXCEPT !.status = "failed", !.error = Or(payload, UNKNOWN_ERROR)]
  IN IF op \in {"signup", "login", "checkAuth"}
       THEN [s1 EXCEPT !.isAuthenticated = FALSE, !.user = Null]
       ELSE s1

\* rejected matcher that clears the user state for checkAuth only
rejected_keepsUser(state, op, payload) ==
  LET s1 == [state EXCEPT !.status = "failed", !.error = Or(payload, UNKNOWN_ERROR)]
  IN IF op = "checkAuth"
       THEN [s1 EXCEPT !.isAuthenticated = FALSE, !.user = Null, !.rememberMe = Bool(FALSE)]
       ELSE s1

rejected(state, op, payload) ==
  LET s1 == [state EXCEPT !.status = "failed", !.error = Or(payload, UNKNOWN_ERROR)]
  IN IF op \in {"signup", "login", "checkAuth"}
       THEN [s1 EXCEPT !.isAuthenticated = FALSE, !.user = Null, !.rememberMe = Bool(FALSE)]
       ELSE s1

-----------------------------------------------------------------------------
(* The thunks' payload creators, from the point where the last response has  *)
(* arrived.  Each yields the action it resolves to and the storage it leaves. *)

Fulfilled(st, user, rememberMe) ==
  [payload |-> [isAuthenticated |-> TRUE, rememberMe |-> rememberMe, user |-> user],
   st |-> st,
   type |-> "fulfilled"]

Rejected(st, value) == [payload |-> value, st |-> st, type |-> "rejected"]

\* signup, after GET /user answered with `data`
signupFetched(st, data) ==
  LET user == prepareUserData(data)
      rememberMe == Bool(TRUE)
      s1 == setStorageItem(st, REMEMBER_ME, rememberMe, Undefined)
      s2 == setStorageItem(s1, USER, user, rememberMe)
  IN IF ~Truthy(user) THEN Rejected(st, SIGNUP_NO_USER)
     ELSE Fulfilled(s2, user, rememberMe)

signupCatch(st, error) == Rejected(st, getLaravelErrorMessage(error, SIGNUP_FAILED))

\* login that does not purge the other scope
loginFetched_noPurge(st, data, rememberMe) ==
  LET user == prepareUserData(data)
      s1 == setStorageItem(st, REMEMBER_ME, rememberMe, Undefined)
      s3 == setStorageItem(s1, USER, user, rememberMe)
  IN IF ~Truthy(user) THEN Rejected(st, LOGIN_NO_USER)
     ELSE Fulfilled(s3, user, rememberMe)

\* login, after GET /api/user answered with `data`
loginFetched(st, data, rememberMe) ==
  LET user == prepareUserData(data)
      s1 == setStorageItem(st, REMEMBER_ME, rememberMe, Undefined)
      s2 == IF Truthy(rememberMe)
              THEN removeStorageItem(s1, USER, Bool(FALSE))
              ELSE removeStorageItem(s1, USER, Bool(TRUE))
      s3 == setStorageItem(s2, USER, user, rememberMe)
  IN IF ~Truthy(user) THEN Rejected(st, LOGIN_NO_USER)
     ELSE Fulfilled(s3, user, rememberMe)

loginCatch(st, error) == Rejected(st, getLaravelErrorMessage(error, LOGIN_FAILED))

\* checkAuth catch block that forgets the durable user record
checkAuthCatch_keepsDurableUser(st) ==
  LET s2 == removeStorageItem(st, USER, Bool(FALSE))
      s3 == removeStorageItem(s2, REMEMBER_ME, Undefined)
  IN Rejected(s3, NOT_AUTHENTICATED)

\* checkAuth: the catch block, reached from a failed request and from the throw
checkAuthCatch(st) ==
  LET s1 == removeStorageItem(st, USER, Bool(TRUE))
      s2 == removeStorageItem(s1, USER, Bool(FALSE))
      s3 == removeStorageItem(s2, REMEMBER_ME, Undefined)
  IN Rejected(s3, NOT_AUTHENTICATED)

\* checkAuth, after GET /user answered with `data`
checkAuthFetched(st, data) ==
  LET user == prepareUserData(data)
      rememberMe == Or(getStorageItem(st, REMEMBER_ME, Bool(TRUE)), Bool(FALSE))
      s1 == setStorageItem(st, USER, user, rememberMe)
  IN IF ~Truthy(user) THEN checkAuthCatch(st)
     ELSE Fulfilled(s1, user, rememberMe)

\* The store after a signup/login/checkAuth thunk resolved to `res`.
settle(state, op, res) ==
  World(IF res.type = "rejected" THEN rejected(state, op, res.payload)
        ELSE IF op = "checkAuth" THEN checkAuthFulfilled(state, res.payload)
        ELSE loginSignupFulfilled(state, res.payload),
        res.st)

\* logoutUser once POST /logout has been answered: logoutClient is dispatched on
\* both paths, then the thunk's own fulfilled / rejected action is reduced.
logoutUserDone(w) ==
  LET c == logoutClient(w)
  IN World(logoutUserFulfilled(c.auth), c.st)

logoutUserCatch(w, error) ==
  LET c == logoutClient(w)
  IN World(rejected(c.auth, "logoutUser", getLaravelErrorMessage(error, LOGOUT_FAILED)), c.st)

-----------------------------------------------------------------------------
(* The shared HTTP client and its request interceptor *)

\* A URL is the sequence of its path segments.
CSRF_COOKIE_URL == <<"sanctum", "csrf-cookie">>
REGISTER_URL == <<"register">>
LOGIN_URL == <<"login">>
LOGOUT_URL == <<"logout">>
USER_URL == <<"user">>
API_USER_URL == <<"api", "user">>

Config(method, url) == [method |-> method, url |-> url]

methodsRequiringCSRF == {"post", "put", "patch", "delete"}

\* String.prototype.includes
Includes(url, part) ==
  \E i \in 1..(Len(url) + 1) :
    i + Len(part) - 1 <= Len(url) /\ SubSeq(url, i, i + Len(part) - 1) = part

\* An interceptor that primes nothing.
Primes_never(config) == FALSE

\* Whether the request interceptor issues the priming request before `config`.
Primes(config) ==
  config.method \in methodsRequiringCSRF /\ ~Includes(config.url, CSRF_COOKIE_URL)

\* The requests one call of the client puts on the network, in order: the
\* priming request goes through the same client, hence the same interceptor.
RECURSIVE Pipeline(_)
Pipeline(config) ==
  IF Primes(config) THEN Pipeline(Config("get", CSRF_COOKIE_URL)) \o <<config>>
  ELSE <<config>>

\* What a thunk waits on while a request is in flight.
Waits(config) == IF config.url = CSRF_COOKIE_URL THEN "csrf" ELSE config.method

\* The first request of each thunk.
FirstCall(op) ==
  CASE op = "signup" -> Config("post", REGISTER_URL)
    [] op = "login" -> Config("post", LOGIN_URL)
    [] op = "logoutUser" -> Config("post", LOGOUT_URL)
    [] op = "checkAuth" -> Config("get", USER_URL)

\* A call starts by waiting on the first request it sends.
Start(config) == Waits(Head(Pipeline(config)))

-----------------------------------------------------------------------------
(* The backend, as far as the client can observe it *)

Accounts == {"alice", "bob"}
NoAccount == "none"

USER_PATH == "/user"
API_USER_PATH == "/api/user"
ProfileRoutes == {USER_PATH, API_USER_PATH}

\* The profile routes a deployment may serve: both paths, or only the one
\* under the API prefix.
Deployments == {ProfileRoutes, {API_USER_PATH}}

\* The body of the profile route for an account.  One account's payload carries
\* no roles / permissions fields.
Profile(a) ==
  IF a = "alice"
    THEN [email |-> "alice@school.test", id |-> 1, name |-> "Alice",
          permissions |-> Arr(<<"view_secteurs">>), roles |-> Arr(<<"admin">>), t |-> "obj"]
    ELSE [email |-> "bob@school.test", id |-> 2, name |-> "Bob",
          permissions |-> Undefined, roles |-> Undefined, t |-> "obj"]

ErrValidation ==
  AxiosError(Body(ErrorsObj(<<Arr(<<Text("The email field is invalid.")>>),
                              Arr(<<Text("The password field is required.")>>)>>),
                  Text("The given data was invalid.")),
             Text("Request failed with status code 422"))
ErrEmptyErrors ==
  AxiosError(Body(ErrorsObj(<< >>), Undefined), Text("Request failed with status code 422"))
ErrUnauthenticated ==
  AxiosError(Body(Undefined, Text("Unauthenticated.")),
             Text("Request failed with status code 401"))
ErrNotFound ==
  AxiosError(Null, Text("Request failed with status code 404"))
ErrNetwork == AxiosError(Undefined, Text("Network Error"))
ErrSilent == AxiosError(Undefined, EmptyString)
ErrCsrf == AxiosError(Undefined, CSRF_FAILED)

Ok(data) == [data |-> data, ok |-> TRUE]
Fail(error) == [error |-> error, ok |-> FALSE]

\* A POST the backend accepted, and the account its session is bound to from
\* then on: the one the credentials of /login or /register name, none after
\* /logout.  The client never reads the body.
Accepted(account) == [account |-> account, data |-> Null, ok |-> TRUE]

\* What a POST of thunk `th` may be answered with.
PostResponses(th) ==
  (IF th.op \in {"signup", "login"}
     THEN {Accepted(a) : a \in Accounts} \cup {Fail(ErrValidation), Fail(ErrEmptyErrors)}
   ELSE IF srvUser # NoAccount THEN {Accepted(NoAccount)}
   ELSE {Fail(ErrUnauthenticated)})
  \cup {Fail(ErrNetwork), Fail(ErrSilent)}

\* What a GET of the profile at `path` may be answered with.
GetResponses(path) ==
  (IF path \notin srvRoutes THEN {Fail(ErrNotFound)}
   ELSE IF srvUser = NoAccount THEN {Ok(Null), Fail(ErrUnauthenticated)}
   ELSE {Ok(Profile(srvUser))})
  \cup {Fail(ErrNetwork)}

-----------------------------------------------------------------------------
(* The App shell: the Ability derived from the fetched permission list *)

\* Longest permission list the permissions route serves.
MaxPermissions == 3

\* Permission names; "manage" is the any-action keyword of the ability library.
ActionNames ==
  {"view_secteurs", "create_secteurs", "edit_secteurs", "delete_secteurs", "manage"}

RECURSIVE Lists(_)
\* The sequences over ActionNames of length n at most.
Lists(n) ==
  IF n = 0 THEN {<< >>}
  ELSE Lists(n - 1) \cup {Append(l, a) : l \in {x \in Lists(n - 1) : Len(x) = n - 1},
                                           a \in ActionNames}

PermissionLists == Lists(MaxPermissions)

\* An ability that loses the last permission of the list.
createAbility_dropsLast(permissions) ==
  [rules |-> [i \in {j \in 1..Len(permissions.v) : j < Len(permissions.v)} |->
                [action |-> permissions.v[i], subject |-> "all"]]]

\* createAbility: one rule per permission, every rule on subject 'all'.
createAbility(permissions) ==
  [rules |-> [i \in 1..Len(permissions.v) |->
                [action |-> permissions.v[i], subject |-> "all"]]]

\* ability.can(action, subject): a rule matches when its action is the action
\* asked or 'manage', and its subject is the subject asked or 'all'; a subject
\* left out is asked as 'all'.
relevantRuleFor(ability, action, subject) ==
  {i \in DOMAIN ability.rules :
     /\ ability.rules[i].action \in {action, "manage"}
     /\ ability.rules[i].subject \in {subject, "all"}}

can(ability, action) == relevantRuleFor(ability, action, "all") # {}

\* The App just mounted: useState(createAbility([])) and the effect's fetch in flight.
AppMounted == [ability |-> createAbility(Arr(<< >>)), fetching |-> TRUE,
               permissions |-> Arr(<< >>)]

\* The body of the permissions route.
PermissionsBody(permissions) == [permissions |-> permissions, t |-> "obj"]

\* What GET /api/user/permissions is answered with by a backend that serves the
\* permissions of the session's account.
PermissionsResponses ==
  (IF srvUser = NoAccount THEN {Fail(ErrUnauthenticated)}
   ELSE {Ok(PermissionsBody(Profile(srvUser).permissions))})
  \cup {Fail(ErrNetwork)}

\* fetchPermissions once the request is answered.
fetchPermissions(a, resp) ==
  IF resp.ok
    THEN [ability |-> createAbility(Or(resp.data.permissions, Arr(<< >>))),
          fetching |-> FALSE,
          permissions |-> Or(resp.data.permissions, Arr(<< >>))]
  ELSE [ability |-> a.ability, fetching |-> FALSE, permissions |-> a.permissions]

-----------------------------------------------------------------------------
(* The LoginForm: client-side validation of a submission *)

\* A string typed into a field is the sequence of its characters.
Chars(s) == s

Emails == {Chars(<< >>), Chars(<<"a", "@", "b">>), Chars(<<"a", "@", ".", "c">>),
           Chars(<<"a", "@", "b", ".", "c">>)}
Passwords == {Chars(<< >>), Chars(<<"x">>)}

FormData(email, password) == [email |-> email, password |-> password]
FormInputs == {FormData(e, p) : e \in Emails, p \in Passwords}

\* \S
NonSpace(c) == c # " "

\* /\S+@\S+\.\S+/.test(email): the pattern is not anchored
EmailFormat(email) ==
  \E p, q \in 1..Len(email) :
    /\ p > 1 /\ NonSpace(email[p - 1])
    /\ email[p] = "@"
    /\ q > p + 1 /\ \A k \in (p + 1)..(q - 1) : NonSpace(email[k])
    /\ email[q] = "."
    /\ q < Len(email) /\ NonSpace(email[q + 1])

EMAIL_REQUIRED == Text("Email is required.")
EMAIL_INVALID == Text("Email format is invalid.")
PASSWORD_REQUIRED == Text("Password is required.")

\* A validation that does not look at the password.
currentErrors_skipsPassword(formData) ==
  [email |-> IF formData.email = << >> THEN EMAIL_REQUIRED
             ELSE IF ~EmailFormat(formData.email) THEN EMAIL_INVALID
             ELSE Undefined,
   password |-> Undefined]

\* The errors object handleSubmit builds; a key it does not set is Undefined.
currentErrors(formData) ==
  [email |-> IF formData.email = << >> THEN EMAIL_REQUIRED
             ELSE IF ~EmailFormat(formData.email) THEN EMAIL_INVALID
             ELSE Undefined,
   password |-> IF formData.password = << >> THEN PASSWORD_REQUIRED ELSE Undefined]

NoErrors == [email |-> Undefined, password |-> Undefined]

\* Object.keys(errors).length > 0
HasKeys(errors) == errors.email # Undefined \/ errors.password # Undefined

\* The form just mounted: nothing submitted, no local errors.
FormMounted == [localErrors |-> NoErrors, submitted |-> Null]

-----------------------------------------------------------------------------
(* The secteurs listing: the projection the view-model derives *)

\* A row of the listing; a field the backend left out is Undefined.
Secteur(id, intitule, secteur) ==
  [id |-> Num(id), intitule |-> intitule, secteur |-> secteur, t |-> "obj"]

\* String.prototype.toLowerCase over the letters used here
LowerChar(c) == CASE c = "A" -> "a" [] c = "B" -> "b" [] OTHER -> c
toLowerCase(chars) == [i \in 1..Len(chars) |-> LowerChar(chars[i])]

CharRank(c) == CASE c = "a" -> 1 [] c = "b" -> 2 [] c = "x" -> 3 [] c = "y" -> 4 [] OTHER -> 5

\* String.prototype.localeCompare on lower-case strings: negative, zero, positive
RECURSIVE localeCompare(_, _)
localeCompare(a, b) ==
  IF a = << >> /\ b = << >> THEN 0
  ELSE IF a = << >> THEN -1
  ELSE IF b = << >> THEN 1
  ELSE IF CharRank(Head(a)) < CharRank(Head(b)) THEN -1
  ELSE IF CharRank(Head(a)) > CharRank(Head(b)) THEN 1
  ELSE localeCompare(Tail(a), Tail(b))

\* x?.toLowerCase()
OptLower(x) == IF x.t \in {"undefined", "null"} THEN Undefined ELSE Str(toLowerCase(x.v))

SortConfig(key, direction) == [direction |-> direction, key |-> key]

\* The comparator handed to Array.prototype.sort
compare(a, b, sortConfig) ==
  LET valueA == Or(OptLower(a[sortConfig.key]), EmptyString)
      valueB == Or(OptLower(b[sortConfig.key]), EmptyString)
  IN IF sortConfig.direction = "asc" THEN localeCompare(valueA.v, valueB.v)
     ELSE IF sortConfig.direction = "desc" THEN localeCompare(valueB.v, valueA.v)
     ELSE 0

\* Array.prototype.sort is stable: an element goes before the first one that
\* compares greater.
RECURSIVE Insert(_, _, _)
Insert(x, sorted, sortConfig) ==
  IF sorted = << >> THEN <<x>>
  ELSE IF compare(Head(sorted), x, sortConfig) <= 0
    THEN <<Head(sorted)>> \o Insert(x, Tail(sorted), sortConfig)
  ELSE <<x>> \o sorted

RECURSIVE SortPrefix(_, _, _)
SortPrefix(list, n, sortConfig) ==
  IF n = 0 THEN << >>
  ELSE Insert(list[n], SortPrefix(list, n - 1, sortConfig), sortConfig)

sort(list, sortConfig) == SortPrefix(list, Len(list), sortConfig)

\* A search that compares the letters as typed.
Search_caseSensitive(list, searchTerm) ==
  LET Hit(s) == Truthy(s.intitule) /\ Includes(s.intitule.v, searchTerm.v)
  IN IF Truthy(searchTerm) THEN SelectSeq(list, Hit) ELSE list

\* "Apply search filter"
Search(list, searchTerm) ==
  LET Hit(s) ==
        /\ OptLower(s.intitule) # Undefined
        /\ Includes(OptLower(s.intitule).v, toLowerCase(searchTerm.v))
  IN IF Truthy(searchTerm) THEN SelectSeq(list, Hit) ELSE list

FilterOf(key, options, value) == [key |-> key, options |-> options, value |-> value]

\* "Apply additional filters": filters.forEach
RECURSIVE Filter(_, _)
Filter(list, filters) ==
  IF filters = << >> THEN list
  ELSE LET f == Head(filters)
           Hit(s) == s[f.key] = f.value
       IN Filter(IF Truthy(f.value) THEN SelectSeq(list, Hit) ELSE list, Tail(filters))

applyFiltersAndSorting(secteurs, searchTerm, filters, sortConfig) ==
  sort(Filter(Search(secteurs, searchTerm), filters), sortConfig)

\* [...new Set(values)]: the distinct values, in order of first occurrence
RECURSIVE Distinct(_)
Distinct(values) ==
  IF values = << >> THEN << >>
  ELSE LET rest == Distinct(SubSeq(values, 1, Len(values) - 1))
           x == values[Len(values)]
       IN IF \E i \in 1..Len(rest) : rest[i] = x THEN rest ELSE Append(rest, x)

updateFilterOptions(filters, data) ==
  IF Len(data) > 0
    THEN <<FilterOf(filters[1].key, Distinct([i \in 1..Len(data) |-> data[i].secteur]),
                    filters[1].value)>>
  ELSE filters

\* handleSort that keeps the direction when the column changes.
handleSort_keepsDirection(prev, column) ==
  SortConfig(column, IF prev.key = column /\ prev.direction = "asc" THEN "desc"
                     ELSE IF prev.key = column THEN "asc" ELSE prev.direction)

handleSort(prev, column) ==
  SortConfig(column, IF prev.key = column /\ prev.direction = "asc" THEN "desc" ELSE "asc")

\* handleFilterChange: prev.map
handleFilterChange(prev, key, value) ==
  [i \in 1..Len(prev) |->
     IF prev[i].key = key THEN FilterOf(prev[i].key, prev[i].options, value) ELSE prev[i]]

-----------------------------------------------------------------------------
(* The secteurs listing: view-model state, service calls, backend table *)

\* Rows of the backend table, and service calls in flight at once.
MaxSecteurs == 2
MaxCalls == 1

\* Service calls in flight at once where mutations are confirmed in quick
\* succession.
MaxOverlap == 2

Ids == 1..MaxSecteurs

\* The table as first served: two rows whose labels differ only in case.
Row(id) ==
  CASE id = 1 -> Secteur(1, Str(<<"A", "b">>), Str(<<"x">>))
    [] id = 2 -> Secteur(2, Str(<<"b">>), Str(<<"y">>))
    [] OTHER -> Secteur(id, Str(<<"a", "B">>), Str(<<"x">>))

Table == [id \in Ids |-> Row(id)]

\* The row with this id, as a set of at most one index.
Find(table, id) == {i \in 1..Len(table) : table[i].id = id}

Without(list, i) == SubSeq(list, 1, i - 1) \o SubSeq(list, i + 1, Len(list))

Modals(isDeleteModalOpen, isModalOpen, secteurToDelete, selectedSecteur, viewMode) ==
  [isDeleteModalOpen |-> isDeleteModalOpen, isModalOpen |-> isModalOpen,
   secteurToDelete |-> secteurToDelete, selectedSecteur |-> selectedSecteur,
   viewMode |-> viewMode]

ModalsOf(v) ==
  Modals(v.isDeleteModalOpen, v.isModalOpen, v.secteurToDelete, v.selectedSecteur, v.viewMode)

\* The hook's state once its effects have run: the projection is recomputed
\* whenever the list, the search term, the filters or the sort change.
View(secteurs, searchTerm, filters, sortConfig, m) ==
  [filteredSecteurs |-> applyFiltersAndSorting(secteurs, searchTerm, filters, sortConfig),
   filters |-> filters,
   isDeleteModalOpen |-> m.isDeleteModalOpen,
   isModalOpen |-> m.isModalOpen,
   searchTerm |-> searchTerm,
   secteurToDelete |-> m.secteurToDelete,
   secteurs |-> secteurs,
   selectedSecteur |-> m.selectedSecteur,
   sortConfig |-> sortConfig,
   viewMode |-> m.viewMode]

\* The useState initial values.
ViewMounted ==
  View(<< >>, EmptyString, <<FilterOf("secteur", << >>, EmptyString)>>,
       SortConfig("intitule", "asc"), Modals(FALSE, FALSE, Null, Null, FALSE))

handleModalClose(v) ==
  View(v.secteurs, v.searchTerm, v.filters, v.sortConfig,
       Modals(v.isDeleteModalOpen, FALSE, v.secteurToDelete, Null, FALSE))

SECTEURS_URL == <<"secteurs">>
IdSegment(id) == <<"1", "2", "3", "4">>[id.v]

\* The request each service method makes.
ServiceCall(op, arg) ==
  CASE op = "load" -> Config("get", SECTEURS_URL)
    [] op = "delete" -> Config("delete", Append(SECTEURS_URL, IdSegment(arg)))
    [] op = "save" ->
         IF Truthy(arg.id) THEN Config("put", Append(SECTEURS_URL, IdSegment(arg.id)))
         ELSE Config("post", SECTEURS_URL)

\* A service call in flight, waiting on the first request it sends.
\* History kept with a call:
\*   stale: the response of a getAll issued later has already arrived.
Call(op, arg) ==
  [arg |-> arg, op |-> op, pc |-> Start(ServiceCall(op, arg)), stale |-> FALSE]

DELETE_PREFIX == "Erreur lors de la suppression du secteur: "
SAVE_PREFIX == "Erreur lors de l'enregistrement du secteur: "

\* A message read from the Error alone.
errorText_transportOnly(error) == error.message

\* error.response?.data?.message || error.message
errorText(error) ==
  LET data == IF error.response.t = "undefined" THEN Undefined ELSE error.response.data
  IN Or(IF Truthy(data) THEN data.message ELSE Undefined, error.message)

\* prefix + message
Concat(prefix, message) == Str(<<prefix>> \o message.v)

\* What a settled call surfaced: an alert or a thrown Error with its text and
\* the error caught, or only that the call succeeded.
Surfaced(kind, text, error) == [error |-> error, kind |-> kind, text |-> text]
Done(kind) == Surfaced(kind, Null, Null)
Nothing == Done("none")

\* A delete that removes the row from the list in memory and does not reload.
deleted_patchesLocally(v) ==
  [reload |-> FALSE,
   view |-> View(SelectSeq(v.secteurs, LAMBDA s : s.id # v.secteurToDelete.id),
                 v.searchTerm, v.filters, v.sortConfig,
                 Modals(FALSE, FALSE, Null, Null, FALSE))]

\* handleDeleteConfirm after the service call succeeded.
deleted(v) ==
  [reload |-> TRUE,
   view |-> handleModalClose(View(v.secteurs, v.searchTerm, v.filters, v.sortConfig,
                                  Modals(FALSE, v.isModalOpen, Null, v.selectedSecteur,
                                         v.viewMode)))]

\* What the modal hands to handleSave: a new secteur, or the selected one edited.
NewSecteur == [id |-> Undefined, intitule |-> Str(<<"b">>), secteur |-> Str(<<"y">>), t |-> "obj"]
Edited(s) == [id |-> s.id, intitule |-> s.intitule, secteur |-> Str(<<"y">>), t |-> "obj"]

\* handleSave after the service call succeeded.
saved(v) == [reload |-> TRUE, view |-> handleModalClose(v)]

\* loadSecteurs after getAll resolved with `data`.
loaded(v, data) ==
  View(data, v.searchTerm, updateFilterOptions(v.filters, data), v.sortConfig, ModalsOf(v))

-----------------------------------------------------------------------------
(* In-flight thunks and the event history *)

\* pc is the request the thunk is waiting on: the CSRF priming GET the request
\* interceptor issues before a POST, the POST itself, or the profile GET.
\* History kept with a thunk:
\*   stale: a logoutUser reset the client state while the thunk was in flight;
\*   after: for a checkAuth dispatched right after a login / signup was
\*          fulfilled, with no event since, what that operation produced.
Thunk(op, pc, rememberMe, after) ==
  [after |-> after, op |-> op, pc |-> pc, rememberMe |-> rememberMe, stale |-> FALSE]

\* The thunk waiting on its next request.
Advance(th, pc) ==
  [after |-> Null, op |-> th.op, pc |-> pc, rememberMe |-> th.rememberMe,
   stale |-> th.stale]

\* The most recent event: a settled thunk, or a note of anything else.
\*   answered: the response that settled the thunk came from the backend
\*             (not a transport or priming failure);
\*   had:      just before, the Session was authenticated and a user record
\*             and a remember-me record were persisted.
\*   at:       the request the thunk was waiting on when it settled;
\*   error:    the error of the request that failed, Null when none did.
Event(op, phase, rememberMe, stale, after, answered, had, at, error) ==
  [after |-> after, answered |-> answered, at |-> at, error |-> error, had |-> had,
   op |-> op, phase |-> phase, rememberMe |-> rememberMe, stale |-> stale]

Note(op) == Event(op, "note", Bool(FALSE), FALSE, Null, FALSE, FALSE, "none", Null)
Quiet == Note("other")

Persisted(key) == localStorage[key] # Null \/ sessionStorage[key] # Null

Had == auth.isAuthenticated /\ Persisted(USER) /\ Persisted(REMEMBER_ME)

Answered(resp) == resp.ok \/ resp.error.response.t # "undefined"

Caught(resp) == IF resp.ok THEN Null ELSE resp.error

Settled(th, phase, resp) ==
  Event(th.op, phase, th.rememberMe, th.stale, th.after, Answered(resp), Had, th.pc,
        Caught(resp))

\* Any event separates a waiting checkAuth from the login it followed.
Forget(ths) == {Advance(th, th.pc) : th \in ths}

MarkStale(ths) ==
  {[after |-> th.after, op |-> th.op, pc |-> th.pc, rememberMe |-> th.rememberMe,
    stale |-> th.stale \/ th.op \in {"signup", "login", "checkAuth"}] :
     th \in ths}

CanDispatch(th) == Cardinality(thunks) < MaxThunks /\ th \notin Forget(thunks)

storage == Stores(localStorage, sessionStorage)

\* Install a world as the next state of the slice and of both scopes.
Becomes(w) ==
  /\ auth' = w.auth
  /\ localStorage' = w.st.local
  /\ sessionStorage' = w.st.session

-----------------------------------------------------------------------------
(* The state after construction: a first visit, nothing persisted *)

Init ==
  /\ localStorage = EmptyStorage
  /\ sessionStorage = EmptyStorage
  /\ auth = initialState(Stores(EmptyStorage, EmptyStorage))
  /\ thunks = {}
  /\ srvUser = NoAccount
  /\ srvRoutes \in Deployments
  /\ last = Quiet
  /\ app = AppMounted
  /\ form = FormMounted
  /\ view = ViewMounted
  /\ calls = <<Call("load", Null)>>
  /\ srvSecteurs = Table
  /\ shown = Nothing

-----------------------------------------------------------------------------
(* Dispatches: the pending action is reduced and the first request leaves *)

Dispatch(th) ==
  /\ CanDispatch(Advance(th, th.pc))
  /\ auth' = pending(auth)
  /\ thunks' = Forget(thunks) \cup {th}
  /\ last' = Quiet
  /\ UNCHANGED <<localStorage, sessionStorage, srvUser, srvRoutes>>

DispatchSignup == Dispatch(Thunk("signup", Start(FirstCall("signup")), Bool(TRUE), Null))

DispatchLogin(rememberMe) == Dispatch(Thunk("login", Start(FirstCall("login")), rememberMe, Null))

DispatchCheckAuth ==
  Dispatch(Thunk("checkAuth", Start(FirstCall("checkAuth")), Bool(FALSE),
                 IF last.phase = "fulfilled" /\ last.op \in {"signup", "login"}
                   THEN [op |-> last.op, rememberMe |-> last.rememberMe, t |-> "obj",
                         user |-> auth.user]
                   ELSE Null))

DispatchLogoutUser == Dispatch(Thunk("logoutUser", Start(FirstCall("logoutUser")), Bool(FALSE), Null))

DispatchLogoutClient ==
  /\ Becomes(logoutClient(World(auth, storage)))
  /\ thunks' = Forget(thunks)
  /\ last' = Note("logoutClient")
  /\ UNCHANGED <<srvUser, srvRoutes>>

DispatchClearError ==
  /\ auth' = clearError(auth)
  /\ thunks' = Forget(thunks)
  /\ last' = Note("clearError")
  /\ UNCHANGED <<localStorage, sessionStorage, srvUser, srvRoutes>>

-----------------------------------------------------------------------------
(* Responses *)

\* The catch block of a signup / login / checkAuth thunk.
Catch(op, stores, error) ==
  IF op = "signup" THEN signupCatch(stores, error)
  ELSE IF op = "login" THEN loginCatch(stores, error)
  ELSE checkAuthCatch(stores)

Others(th) == Forget(thunks \ {th})

\* The CSRF priming request of a thunk is answered.  On failure the interceptor
\* rejects with Error('Failed to obtain CSRF token.') and the POST never leaves.
CsrfResponse(th, ok) ==
  /\ th \in thunks
  /\ th.pc = "csrf"
  /\ IF ok
       THEN /\ Advance(th, FirstCall(th.op).method) \notin thunks
            /\ thunks' = Others(th) \cup {Advance(th, FirstCall(th.op).method)}
            /\ last' = Quiet
            /\ UNCHANGED <<auth, localStorage, sessionStorage>>
     ELSE IF th.op = "logoutUser"
       THEN /\ Becomes(logoutUserCatch(World(auth, storage), ErrCsrf))
            /\ thunks' = MarkStale(Others(th))
            /\ last' = Settled(th, "rejected", Fail(ErrCsrf))
     ELSE /\ Becomes(settle(auth, th.op, Catch(th.op, storage, ErrCsrf)))
          /\ thunks' = Others(th)
          /\ last' = Settled(th, "rejected", Fail(ErrCsrf))
  /\ UNCHANGED <<srvUser, srvRoutes>>

\* POST /register, /login or /logout of a thunk is answered.
PostResponse(th, resp) ==
  /\ th \in thunks
  /\ th.pc = "post"
  /\ resp \in PostResponses(th)
  /\ IF th.op = "logoutUser"
       THEN /\ Becomes(IF resp.ok THEN logoutUserDone(World(auth, storage))
                       ELSE logoutUserCatch(World(auth, storage), resp.error))
            /\ thunks' = MarkStale(Others(th))
            /\ srvUser' = IF resp.ok THEN resp.account ELSE srvUser
            /\ last' = Settled(th, IF resp.ok THEN "fulfilled" ELSE "rejected", resp)
     ELSE IF resp.ok
       THEN /\ Advance(th, "get") \notin thunks
            /\ thunks' = Others(th) \cup {Advance(th, "get")}
            /\ srvUser' = resp.account
            /\ last' = Quiet
            /\ UNCHANGED <<auth, localStorage, sessionStorage>>
     ELSE /\ Becomes(settle(auth, th.op, Catch(th.op, storage, resp.error)))
          /\ thunks' = Others(th)
          /\ last' = Settled(th, "rejected", resp)
          /\ UNCHANGED srvUser
  /\ UNCHANGED srvRoutes

\* The profile path each thunk reads.
ProfilePath(op) == IF op = "login" THEN API_USER_PATH ELSE USER_PATH

\* The body of a signup / login / checkAuth thunk once the profile GET is answered.
Fetched(th, stores, resp) ==
  IF ~resp.ok THEN Catch(th.op, stores, resp.error)
  ELSE IF th.op = "signup" THEN signupFetched(stores, resp.data)
  ELSE IF th.op = "login" THEN loginFetched(stores, resp.data, th.rememberMe)
  ELSE checkAuthFetched(stores, resp.data)

\* The profile GET of a thunk is answered and the thunk settles.
GetResponse(th, resp) ==
  /\ th \in thunks
  /\ th.pc = "get"
  /\ resp \in GetResponses(ProfilePath(th.op))
  /\ Becomes(settle(auth, th.op, Fetched(th, storage, resp)))
  /\ thunks' = Others(th)
  /\ last' = Settled(th, Fetched(th, storage, resp).type, resp)
  /\ UNCHANGED <<srvUser, srvRoutes>>

-----------------------------------------------------------------------------
(* Environment *)

\* The backend session ends on its own (expiry, logout from another client).
SessionExpires ==
  /\ srvUser # NoAccount
  /\ srvUser' = NoAccount
  /\ thunks' = Forget(thunks)
  /\ last' = Quiet
  /\ UNCHANGED <<auth, localStorage, sessionStorage, srvRoutes>>

\* The page is loaded again: the module is evaluated anew and initialState is
\* read from storage.  A reload keeps the tab-scoped storage, a new browser
\* session starts with it empty; requests of the old page are gone.
Reload(keepTab) ==
  /\ sessionStorage' = IF keepTab THEN sessionStorage ELSE EmptyStorage
  /\ localStorage' = localStorage
  /\ auth' = initialState(Stores(localStorage, sessionStorage'))
  /\ thunks' = {}
  /\ last' = Note(IF keepTab THEN "reload" ELSE "restart")
  /\ app' = AppMounted
  /\ form' = FormMounted
  /\ view' = ViewMounted
  /\ calls' = <<Call("load", Null)>>
  /\ shown' = Nothing
  /\ UNCHANGED <<srvUser, srvRoutes, srvSecteurs>>

\* The App's permissions fetch is answered.
PermissionsResponse(resp) ==
  /\ app.fetching
  /\ app' = fetchPermissions(app, resp)
  /\ UNCHANGED <<auth, localStorage, sessionStorage, thunks, srvUser, srvRoutes, last, form>>
  /\ UNCHANGED page

\* handleSubmit of the LoginForm; its button is disabled while the status is loading.
handleSubmit(formData, rememberMe) ==
  /\ auth.status # "loading"
  /\ IF HasKeys(currentErrors(formData))
       THEN /\ form' = [localErrors |-> currentErrors(formData), submitted |-> formData]
            /\ UNCHANGED <<auth, thunks, last>>
       ELSE /\ form' = [localErrors |-> NoErrors, submitted |-> formData]
            /\ CanDispatch(Thunk("login", Start(FirstCall("login")), Bool(rememberMe), Null))
            /\ auth' = pending(clearError(auth))
            /\ thunks' = Forget(thunks)
                            \cup {Thunk("login", Start(FirstCall("login")), Bool(rememberMe), Null)}
            /\ last' = Quiet
  /\ UNCHANGED <<localStorage, sessionStorage, srvUser, srvRoutes, app>>
  /\ UNCHANGED page

-----------------------------------------------------------------------------
(* The secteurs page: handlers of the view-model and answers to its calls *)

SearchTerms == {EmptyString, Str(<<"a">>), Str(<<"B">>)}
FilterValues == {EmptyString, Str(<<"x">>), Str(<<"y">>)}
Columns == {"intitule", "secteur"}

\* The rows on screen.
Displayed == {view.filteredSecteurs[i] : i \in 1..Len(view.filteredSecteurs)}

\* A handler that only sets state.
Sets(v) ==
  /\ view' = v
  /\ shown' = Nothing
  /\ UNCHANGED <<calls, srvSecteurs>>
  /\ UNCHANGED store
  /\ UNCHANGED <<app, form>>

HandleSearch(term) ==
  Sets(View(view.secteurs, term, view.filters, view.sortConfig, ModalsOf(view)))

HandleFilterChange(key, value) ==
  Sets(View(view.secteurs, view.searchTerm, handleFilterChange(view.filters, key, value),
            view.sortConfig, ModalsOf(view)))

HandleSort(column) ==
  Sets(View(view.secteurs, view.searchTerm, view.filters,
            handleSort(view.sortConfig, column), ModalsOf(view)))

HandleModalOpen(secteur, mode) ==
  Sets(View(view.secteurs, view.searchTerm, view.filters, view.sortConfig,
            Modals(view.isDeleteModalOpen, TRUE, view.secteurToDelete, secteur,
                   mode = "view")))

HandleModalClose == view.isModalOpen /\ Sets(handleModalClose(view))

HandleDeleteClick(secteur) ==
  Sets(View(view.secteurs, view.searchTerm, view.filters, view.sortConfig,
            Modals(TRUE, view.isModalOpen, secteur, view.selectedSecteur, view.viewMode)))

HandleDeleteCancel ==
  /\ view.isDeleteModalOpen
  /\ Sets(View(view.secteurs, view.searchTerm, view.filters, view.sortConfig,
               Modals(FALSE, view.isModalOpen, Null, view.selectedSecteur, view.viewMode)))

\* A handler that issues a service call and awaits it, at most n in flight.
IssuesUpTo(call, n) ==
  /\ Len(calls) < n
  /\ calls' = Append(calls, call)
  /\ shown' = Nothing
  /\ UNCHANGED <<view, srvSecteurs>>
  /\ UNCHANGED store
  /\ UNCHANGED <<app, form>>

Issues(call) == IssuesUpTo(call, MaxCalls)

HandleDeleteConfirm ==
  /\ Truthy(view.secteurToDelete)
  /\ Issues(Call("delete", view.secteurToDelete.id))

HandleSave(secteurData) == Issues(Call("save", secteurData))

\* The call at position i settles: it leaves the calls in flight, a reload
\* it started takes its place at the end.
Settles(i, v, reload, surfaced) ==
  /\ view' = v
  /\ calls' = Without(calls, i) \o (IF reload THEN <<Call("load", Null)>> ELSE << >>)
  /\ shown' = surfaced

\* The catch block of the handler that awaits call c.
Fails(i, error) ==
  IF calls[i].op = "delete"
    THEN Settles(i, view, FALSE,
                 Surfaced("alert", Concat(DELETE_PREFIX, errorText(error)), error))
  ELSE IF calls[i].op = "save"
    THEN Settles(i, view, FALSE,
                 Surfaced("thrown", Concat(SAVE_PREFIX, errorText(error)), error))
  ELSE Settles(i, view, FALSE, Done("loadFailed"))

\* The priming request of a call is answered.
CallCsrfResponse(i, ok) ==
  /\ calls[i].pc = "csrf"
  /\ IF ok
       THEN /\ calls' = [calls EXCEPT ![i] =
                           [arg |-> calls[i].arg, op |-> calls[i].op,
                            pc |-> ServiceCall(calls[i].op, calls[i].arg).method,
                            stale |-> calls[i].stale]]
            /\ shown' = Nothing
            /\ UNCHANGED view
       ELSE Fails(i, ErrCsrf)
  /\ UNCHANGED srvSecteurs
  /\ UNCHANGED store
  /\ UNCHANGED <<app, form>>

\* getAll: response.data || []
getAll(resp) == Or(resp.data, Arr(<< >>))

\* GET /secteurs is answered.
LoadResponse(i, resp) ==
  /\ calls[i].pc = "get"
  /\ IF resp.ok
       THEN Settles(i, loaded(view, getAll(resp).v), FALSE, Done("loaded"))
       ELSE Fails(i, resp.error)
  /\ UNCHANGED srvSecteurs
  /\ UNCHANGED store
  /\ UNCHANGED <<app, form>>

\* GET /secteurs reaches the backend: the response, the table as it is then,
\* is on its way back.
LoadServed(i) ==
  /\ calls[i].pc = "get"
  /\ calls' = [calls EXCEPT ![i] =
                 [arg |-> Arr(srvSecteurs), op |-> "load", pc |-> "served",
                  stale |-> calls[i].stale]]
  /\ shown' = Nothing
  /\ UNCHANGED <<view, srvSecteurs>>
  /\ UNCHANGED store
  /\ UNCHANGED <<app, form>>

\* The calls once the response of the getAll at position i has arrived: every
\* getAll issued before it and still in flight has been overtaken.
Overtakes(cs, i) ==
  [j \in 1..Len(cs) |->
     [arg |-> cs[j].arg, op |-> cs[j].op, pc |-> cs[j].pc,
      stale |-> cs[j].stale \/ (j < i /\ cs[j].op = "load")]]

\* The response of a getAll arrives: loadSecteurs resumes after its await.
LoadArrives(i) ==
  /\ calls[i].pc = "served"
  /\ view' = loaded(view, getAll(Ok(calls[i].arg)).v)
  /\ calls' = Without(Overtakes(calls, i), i)
  /\ shown' = Done(IF calls[i].stale THEN "overtaken" ELSE "loaded")
  /\ UNCHANGED srvSecteurs
  /\ UNCHANGED store
  /\ UNCHANGED <<app, form>>

\* handleDeleteConfirm while earlier calls are still in flight.
HandleDeleteConfirmBusy ==
  /\ Truthy(view.secteurToDelete)
  /\ IssuesUpTo(Call("delete", view.secteurToDelete.id), MaxOverlap)

\* DELETE /secteurs/:id is answered; the backend removes the row it finds.
DeleteResponse(i, resp) ==
  /\ calls[i].pc = "delete"
  /\ IF resp.ok
       THEN /\ Find(srvSecteurs, calls[i].arg) # {}
            /\ srvSecteurs' = SelectSeq(srvSecteurs, LAMBDA s : s.id # calls[i].arg)
            /\ Settles(i, deleted(view).view, deleted(view).reload, Done("deleted"))
       ELSE /\ UNCHANGED srvSecteurs
            /\ Fails(i, resp.error)
  /\ UNCHANGED store
  /\ UNCHANGED <<app, form>>

\* The smallest id the table does not use.
FreeIds == {n \in Ids : Find(srvSecteurs, Num(n)) = {}}
NextId == CHOOSE n \in FreeIds : \A m \in FreeIds : n <= m

\* The table after the backend stored `data`: a new row at the end, or the
\* row of that id replaced.
Stored(data) ==
  IF Truthy(data.id)
    THEN [i \in 1..Len(srvSecteurs) |->
            IF srvSecteurs[i].id = data.id
              THEN Secteur(data.id.v, data.intitule, data.secteur) ELSE srvSecteurs[i]]
  ELSE Append(srvSecteurs, Secteur(NextId, data.intitule, data.secteur))

\* POST /secteurs or PUT /secteurs/:id is answered.
SaveResponse(i, resp) ==
  /\ calls[i].pc \in {"post", "put"}
  /\ IF resp.ok
       THEN /\ IF Truthy(calls[i].arg.id) THEN Find(srvSecteurs, calls[i].arg.id) # {}
               ELSE FreeIds # {}
            /\ srvSecteurs' = Stored(calls[i].arg)
            /\ Settles(i, saved(view).view, saved(view).reload, Done("saved"))
       ELSE /\ UNCHANGED srvSecteurs
            /\ Fails(i, resp.error)
  /\ UNCHANGED store
  /\ UNCHANGED <<app, form>>

\* Rows other clients may leave in the table: one of them has no label.
Pool == {Row(1), Row(2), Row(3), Secteur(2, Undefined, Str(<<"y">>))}

\* The tables made of up to three rows of the pool, in any order.
Catalogues ==
  {<< >>} \cup {<<a>> : a \in Pool}
    \cup {w \in {<<a, b>> : a \in Pool, b \in Pool} : w[1].id # w[2].id}
    \cup {w \in {<<a, b, c>> : a \in Pool, b \in Pool, c \in Pool} :
            w[1].id # w[2].id /\ w[1].id # w[3].id /\ w[2].id # w[3].id}

\* Another client changes the table.  The page sees the table only through
\* its loads, so the change is taken while one is on its way.
BackendChanges ==
  /\ \E i \in 1..Len(calls) : calls[i].op = "load"
  /\ srvSecteurs' \in Catalogues \ {srvSecteurs}
  /\ shown' = Nothing
  /\ UNCHANGED <<view, calls>>
  /\ UNCHANGED store
  /\ UNCHANGED <<app, form>>

\* What the backend may refuse a mutation with.
Refusals == {Fail(ErrValidation), Fail(ErrUnauthenticated), Fail(ErrNotFound), Fail(ErrNetwork)}

-----------------------------------------------------------------------------

Next ==
  \/ DispatchSignup /\ UNCHANGED shell
  \/ (\E r \in BOOLEAN : DispatchLogin(Bool(r))) /\ UNCHANGED shell
  \/ DispatchCheckAuth /\ UNCHANGED shell
  \/ DispatchLogoutUser /\ UNCHANGED shell
  \/ DispatchLogoutClient /\ UNCHANGED shell
  \/ DispatchClearError /\ UNCHANGED shell
  \/ (\E th \in thunks, ok \in BOOLEAN : CsrfResponse(th, ok)) /\ UNCHANGED shell
  \/ (\E th \in thunks : \E resp \in PostResponses(th) : PostResponse(th, resp))
       /\ UNCHANGED shell
  \/ (\E th \in thunks : \E resp \in GetResponses(ProfilePath(th.op)) : GetResponse(th, resp))
       /\ UNCHANGED shell
  \/ SessionExpires /\ UNCHANGED shell
  \/ \E k \in BOOLEAN : Reload(k)

Spec == Init /\ [][Next]_vars

\* The store used one operation at a time: nothing is dispatched while a thunk
\* is in flight.
SequentialNext ==
  \/ thunks = {} /\ DispatchSignup /\ UNCHANGED shell
  \/ thunks = {} /\ (\E r \in BOOLEAN : DispatchLogin(Bool(r))) /\ UNCHANGED shell
  \/ thunks = {} /\ DispatchCheckAuth /\ UNCHANGED shell
  \/ thunks = {} /\ DispatchLogoutUser /\ UNCHANGED shell
  \/ DispatchLogoutClient /\ UNCHANGED shell
  \/ DispatchClearError /\ UNCHANGED shell
  \/ (\E th \in thunks, ok \in BOOLEAN : CsrfResponse(th, ok)) /\ UNCHANGED shell
  \/ (\E th \in thunks : \E resp \in PostResponses(th) : PostResponse(th, resp))
       /\ UNCHANGED shell
  \/ (\E th \in thunks : \E resp \in GetResponses(ProfilePath(th.op)) : GetResponse(th, resp))
       /\ UNCHANGED shell
  \/ SessionExpires /\ UNCHANGED shell
  \/ \E k \in BOOLEAN : Reload(k)

SpecSequential == Init /\ [][SequentialNext]_vars

\* One visit: the store used one operation at a time on a page that is not
\* loaded again.
VisitNext ==
  \/ thunks = {} /\ DispatchSignup /\ UNCHANGED shell
  \/ thunks = {} /\ (\E r \in BOOLEAN : DispatchLogin(Bool(r))) /\ UNCHANGED shell
  \/ thunks = {} /\ DispatchCheckAuth /\ UNCHANGED shell
  \/ thunks = {} /\ DispatchLogoutUser /\ UNCHANGED shell
  \/ DispatchLogoutClient /\ UNCHANGED shell
  \/ DispatchClearError /\ UNCHANGED shell
  \/ (\E th \in thunks, ok \in BOOLEAN : CsrfResponse(th, ok)) /\ UNCHANGED shell
  \/ (\E th \in thunks : \E resp \in PostResponses(th) : PostResponse(th, resp))
       /\ UNCHANGED shell
  \/ (\E th \in thunks : \E resp \in GetResponses(ProfilePath(th.op)) : GetResponse(th, resp))
       /\ UNCHANGED shell
  \/ SessionExpires /\ UNCHANGED shell

SpecVisit == Init /\ [][VisitNext]_vars

\* The store used one operation at a time under the App shell, whose
\* permissions fetch is answered by the same backend.
AppNext ==
  \/ thunks = {} /\ DispatchSignup /\ UNCHANGED shell
  \/ thunks = {} /\ (\E r \in BOOLEAN : DispatchLogin(Bool(r))) /\ UNCHANGED shell
  \/ thunks = {} /\ DispatchCheckAuth /\ UNCHANGED shell
  \/ thunks = {} /\ DispatchLogoutUser /\ UNCHANGED shell
  \/ DispatchLogoutClient /\ UNCHANGED shell
  \/ DispatchClearError /\ UNCHANGED shell
  \/ (\E th \in thunks, ok \in BOOLEAN : CsrfResponse(th, ok)) /\ UNCHANGED shell
  \/ (\E th \in thunks : \E resp \in PostResponses(th) : PostResponse(th, resp))
       /\ UNCHANGED shell
  \/ (\E th \in thunks : \E resp \in GetResponses(ProfilePath(th.op)) : GetResponse(th, resp))
       /\ UNCHANGED shell
  \/ SessionExpires /\ UNCHANGED shell
  \/ \E resp \in PermissionsResponses : PermissionsResponse(resp)
  \/ \E k \in BOOLEAN : Reload(k)

SpecApp == Init /\ [][AppNext]_vars

\* The App shell alone, against a permissions route that may serve any list.
AbilityNext ==
  \/ \E l \in PermissionLists : PermissionsResponse(Ok(PermissionsBody(Arr(l))))
  \/ PermissionsResponse(Ok(PermissionsBody(Undefined)))
  \/ PermissionsResponse(Fail(ErrNetwork))
  \/ \E k \in BOOLEAN : Reload(k)

SpecAbility == Init /\ [][AbilityNext]_vars

\* The store used one operation at a time, logins submitted through the LoginForm.
FormNext ==
  \/ thunks = {} /\ DispatchSignup /\ UNCHANGED shell
  \/ thunks = {} /\ (\E fd \in FormInputs, r \in BOOLEAN : handleSubmit(fd, r))
  \/ thunks = {} /\ DispatchCheckAuth /\ UNCHANGED shell
  \/ thunks = {} /\ DispatchLogoutUser /\ UNCHANGED shell
  \/ DispatchLogoutClient /\ UNCHANGED shell
  \/ DispatchClearError /\ UNCHANGED shell
  \/ (\E th \in thunks, ok \in BOOLEAN : CsrfResponse(th, ok)) /\ UNCHANGED shell
  \/ (\E th \in thunks : \E resp \in PostResponses(th) : PostResponse(th, resp))
       /\ UNCHANGED shell
  \/ (\E th \in thunks : \E resp \in GetResponses(ProfilePath(th.op)) : GetResponse(th, resp))
       /\ UNCHANGED shell
  \/ SessionExpires /\ UNCHANGED shell
  \/ \E k \in BOOLEAN : Reload(k)

SpecForm == Init /\ [][FormNext]_vars

\* The secteurs listing searched, filtered and sorted while other clients
\* change the table it loads.
ProjectionNext ==
  \/ \E term \in SearchTerms : HandleSearch(term)
  \/ \E value \in FilterValues : HandleFilterChange("secteur", value)
  \/ \E column \in Columns : HandleSort(column)
  \/ \E i \in 1..Len(calls) : LoadResponse(i, Ok(Arr(srvSecteurs)))
  \/ \E i \in 1..Len(calls) : LoadResponse(i, Fail(ErrNetwork))
  \/ BackendChanges
  \/ \E k \in BOOLEAN : Reload(k)

SpecProjection == Init /\ [][ProjectionNext]_vars

\* The secteurs listing edited through its modals.
SecteursNext ==
  \/ \E secteur \in Displayed \cup {Null}, mode \in {"view", "edit"} :
       HandleModalOpen(secteur, mode)
  \/ HandleModalClose
  \/ \E secteur \in Displayed : HandleDeleteClick(secteur)
  \/ HandleDeleteCancel
  \/ HandleDeleteConfirm
  \/ view.isModalOpen /\ HandleSave(NewSecteur)
  \/ view.isModalOpen /\ Truthy(view.selectedSecteur)
       /\ HandleSave(Edited(view.selectedSecteur))
  \/ \E i \in 1..Len(calls), ok \in BOOLEAN : CallCsrfResponse(i, ok)
  \/ \E i \in 1..Len(calls) : LoadResponse(i, Ok(Arr(srvSecteurs)))
  \/ \E i \in 1..Len(calls) : LoadResponse(i, Fail(ErrNetwork))
  \/ \E i \in 1..Len(calls) : \E resp \in {Ok(Null)} \cup Refusals : DeleteResponse(i, resp)
  \/ \E i \in 1..Len(calls) : \E resp \in {Ok(Null)} \cup Refusals : SaveResponse(i, resp)
  \/ \E k \in BOOLEAN : Reload(k)

SpecSecteurs == Init /\ [][SecteursNext]_vars

\* The secteurs listing while deletes are confirmed in quick succession: the
\* reload each one starts is not awaited, and a response takes its time.
ReloadsNext ==
  \/ \E secteur \in Displayed : HandleDeleteClick(secteur)
  \/ HandleDeleteCancel
  \/ HandleDeleteConfirmBusy
  \/ \E i \in 1..Len(calls), ok \in BOOLEAN : CallCsrfResponse(i, ok)
  \/ \E i \in 1..Len(calls) : \E resp \in {Ok(Null)} \cup Refusals : DeleteResponse(i, resp)
  \/ \E i \in 1..Len(calls) : LoadServed(i)
  \/ \E i \in 1..Len(calls) : LoadArrives(i)
  \/ \E i \in 1..Len(calls) : LoadResponse(i, Fail(ErrNetwork))
  \/ \E k \in BOOLEAN : Reload(k)

SpecReloads == Init /\ [][ReloadsNext]_vars

-----------------------------------------------------------------------------
(* Properties *)

Item(value) == ToItem(JSONstringify(value))

SettledAs(op, phase) == last.op = op /\ last.phase = phase

NothingPersisted ==
  \A key \in STORAGE_KEYS : localStorage[key] = Null /\ sessionStorage[key] = Null

Anonymous == ~auth.isAuthenticated /\ auth.user = Null /\ auth.rememberMe = Bool(FALSE)

\* C1: once logoutUser has settled, fulfilled or rejected, the Session is not
\* authenticated, has no user, and neither scope holds a user record or a
\* remember-me record.
C1_LogoutClears ==
  (SettledAs("logoutUser", "fulfilled") \/ SettledAs("logoutUser", "rejected"))
    => ~auth.isAuthenticated /\ auth.user = Null /\ NothingPersisted

\* A logout the backend refused, from an authenticated Session with persisted records.
C1_Witness == SettledAs("logoutUser", "rejected") /\ last.had

\* C2: a login, signup or checkAuth that was in flight when a logout reset the
\* client state does not, by being fulfilled afterwards, authenticate the Session or
\* persist a user record.
C2_ResetWins ==
  (last.phase = "fulfilled" /\ last.stale) => ~auth.isAuthenticated /\ ~Persisted(USER)

\* C3: when login is fulfilled the user record is in the scope rememberMe
\* selects, and the other scope holds none.
C3_LoginScope ==
  SettledAs("login", "fulfilled") =>
    IF Truthy(last.rememberMe)
      THEN localStorage[USER] = Item(auth.user) /\ sessionStorage[USER] = Null
      ELSE sessionStorage[USER] = Item(auth.user) /\ localStorage[USER] = Null

\* A login fulfilled without remember-me over a Session that had records persisted.
C3_Witness == SettledAs("login", "fulfilled") /\ ~Truthy(last.rememberMe) /\ last.had

\* C4: after any sequence of completed operations, the two scopes never both
\* hold a user record.
C4_AtMostOneScope ==
  thunks = {} => ~(localStorage[USER] # Null /\ sessionStorage[USER] # Null)

\* C5: a checkAuth fulfilled right after a login / signup that stored preference r
\* leaves Session.rememberMe = r and the user record in the scope r selects.
C5_CheckAuthReusesPreference ==
  (SettledAs("checkAuth", "fulfilled") /\ last.after # Null) =>
    /\ auth.rememberMe = last.after.rememberMe
    /\ storage[getStorage(last.after.rememberMe)][USER] = Item(auth.user)

\* C6: a checkAuth dispatched right after a fulfilled login and answered by the
\* backend, its session still active, leaves the Session authenticated as the
\* user the login stored.
C6_LoginThenCheckAuthSameUser ==
  (last.op = "checkAuth" /\ last.phase \in {"fulfilled", "rejected"} /\ last.answered
     /\ last.after # Null /\ last.after.op = "login") =>
    auth.isAuthenticated /\ auth.user = last.after.user

\* C7: when checkAuth is rejected no user or remember-me record is left in
\* either scope and the Session is failed with 'User not authenticated.',
\* anonymous.
C7_CheckAuthFailureClears ==
  SettledAs("checkAuth", "rejected") =>
    /\ NothingPersisted
    /\ auth.status = "failed"
    /\ auth.error = NOT_AUTHENTICATED
    /\ Anonymous

\* A checkAuth rejected while the Session was authenticated with records persisted.
C7_Witness == SettledAs("checkAuth", "rejected") /\ last.had

\* C8: when signup or login is rejected the Session is failed with an error
\* and anonymous, whatever it held before.
C8_FailureForcesAnonymous ==
  (SettledAs("signup", "rejected") \/ SettledAs("login", "rejected")) =>
    /\ auth.status = "failed"
    /\ auth.error # Null
    /\ Anonymous

\* A login rejected by the backend while the Session was authenticated.
C8_Witness == SettledAs("login", "rejected") /\ last.answered /\ last.had

\* C9: a clearError step sets error to null and changes no other field of the
\* Session and neither storage scope.
C9_ClearErrorFrame ==
  [][last'.op = "clearError" =>
       /\ auth'.error = Null
       /\ auth'.user = auth.user
       /\ auth'.isAuthenticated = auth.isAuthenticated
       /\ auth'.rememberMe = auth.rememberMe
       /\ auth'.status = auth.status
       /\ localStorage' = localStorage
       /\ sessionStorage' = sessionStorage]_vars

\* clearError reduced on a failed Session: the status stays, the error is gone.
C9_Witness == last.op = "clearError" /\ auth.status = "failed" /\ auth.error = Null

\* C10: when signup is fulfilled the Session is succeeded, authenticated as the
\* fetched user with rememberMe = true, and the user record and the remember-me
\* record are both in the durable scope.
C10_SignupPersistsDurably ==
  SettledAs("signup", "fulfilled") =>
    /\ auth.status = "succeeded"
    /\ auth.isAuthenticated
    /\ auth.rememberMe = Bool(TRUE)
    /\ localStorage[USER] = Item(auth.user)
    /\ localStorage[REMEMBER_ME] = Item(Bool(TRUE))

\* The priming request of the shared client.
Priming == Config("get", CSRF_COOKIE_URL)

\* A thunk of `ths` that is `th` at an earlier or the same request.
Earlier(ths, th, pcs) ==
  \E o \in ths : o.op = th.op /\ o.rememberMe = th.rememberMe /\ o.pc \in pcs

\* C11: a thunk's state-changing request is on the network only after the
\* priming request issued for that call was answered; the calls the thunks make
\* put exactly one priming request before a state-changing request, and the
\* priming request passes the interceptor without a further priming request.
C11_PrimedBeforeSent ==
  /\ [][\A th \in thunks' :
          th.pc \in methodsRequiringCSRF => Earlier(thunks, th, {"csrf", th.pc})]_vars
  /\ [](/\ Pipeline(Priming) = <<Priming>>
        /\ \A th \in thunks :
             th.pc \in {"csrf"} \cup methodsRequiringCSRF =>
               Pipeline(FirstCall(th.op)) = <<Priming, FirstCall(th.op)>>)

\* Two calls in flight: one past its priming request, one still waiting on it.
C11_Witness ==
  \E a, b \in thunks : a.pc = "post" /\ b.pc = "csrf" /\ a.op = "login" /\ b.op = "logoutUser"

\* C12: when the priming request of a call fails, the call's own request is
\* not sent (the thunk settles without waiting on it and the backend session
\* is untouched) and the thunk is rejected with 'Failed to obtain CSRF token.',
\* which becomes Session.error with status failed; for login and signup the
\* Session is anonymous.
C12_CsrfFailureAborts ==
  [][(last'.phase = "rejected" /\ last'.at = "csrf") =>
       /\ srvUser' = srvUser
       /\ \A th \in thunks' : th.pc \in methodsRequiringCSRF => Earlier(thunks, th, {th.pc})
       /\ \A th \in thunks' : Earlier(thunks, th, {th.pc})
       /\ auth'.status = "failed"
       /\ auth'.error = CSRF_FAILED
       /\ last'.op \in {"signup", "login"} =>
            ~auth'.isAuthenticated /\ auth'.user = Null]_vars

\* A login whose priming request failed while the Session was authenticated.
C12_Witness ==
  SettledAs("login", "rejected") /\ last.at = "csrf" /\ last.had /\ auth.error = CSRF_FAILED

\* The elements of a JavaScript array.
Elements(arr) == {arr.v[i] : i \in 1..Len(arr.v)}

\* C13: once a login is fulfilled and no permissions fetch is outstanding, the
\* Ability in effect allows exactly the actions in the permission list of the
\* user the login stored.
C13_AbilityFollowsLogin ==
  (SettledAs("login", "fulfilled") /\ ~app.fetching) =>
    \A a \in ActionNames : can(app.ability, a) <=> a \in Elements(auth.user.permissions)

\* C14 as stated: the Ability allows an action exactly when the action is an
\* element of the permission list it was created from.
C14_CanExactlyPermissions ==
  \A a \in ActionNames : can(app.ability, a) <=> a \in Elements(app.permissions)

\* C14, amended: the Ability allows an action exactly when the action, or the
\* any-action keyword 'manage', is an element of the permission list it was
\* created from; every rule is on subject 'all'; the empty list allows nothing.
C14_CanPermissionsOrManage ==
  /\ \A a \in ActionNames :
       can(app.ability, a) <=>
         (a \in Elements(app.permissions) \/ "manage" \in Elements(app.permissions))
  /\ \A i \in DOMAIN app.ability.rules : app.ability.rules[i].subject = "all"
  /\ Len(app.ability.rules) = Len(app.permissions.v)
  /\ app.permissions = Arr(<< >>) => \A a \in ActionNames : ~can(app.ability, a)

\* An Ability created from a fetched list that names two actions, one twice.
C14_Witness ==
  /\ ~app.fetching
  /\ app.permissions = Arr(<<"view_secteurs", "edit_secteurs", "view_secteurs">>)
  /\ can(app.ability, "edit_secteurs") /\ ~can(app.ability, "delete_secteurs")

\* What C20 calls a submission failing validation.
FailsValidation(formData) ==
  formData.email = << >> \/ ~EmailFormat(formData.email) \/ formData.password = << >>

\* C20: a submission of the login form with an empty email, an email not of
\* the required format or an empty password dispatches nothing: the Session,
\* both storage scopes, the thunks in flight and the backend session are as
\* before, and the form's local errors are set.
C20_InvalidSubmitStaysLocal ==
  [][(form' # form /\ form'.submitted # Null /\ FailsValidation(form'.submitted)) =>
       /\ UNCHANGED <<auth, localStorage, sessionStorage, thunks, srvUser, last>>
       /\ HasKeys(form'.localErrors)]_vars

\* An ill-formed email with an empty password submitted on an authenticated Session.
C20_Witness ==
  /\ form.submitted = FormData(<<"a", "@", ".", "c">>, << >>)
  /\ form.localErrors = [email |-> EMAIL_INVALID, password |-> PASSWORD_REQUIRED]
  /\ auth.isAuthenticated /\ auth.status = "succeeded"

\* The loads in flight.
Loads(cs) == Cardinality({i \in 1..Len(cs) : cs[i].op = "load"})

\* C15: when a delete, create or update succeeds the list in memory is left
\* as it is and one more getAll is in flight; when a getAll succeeds the list
\* becomes the table the backend served.
C15_MutationReloads ==
  [][/\ shown'.kind \in {"deleted", "saved"} =>
          view'.secteurs = view.secteurs /\ Loads(calls') = Loads(calls) + 1
     /\ shown'.kind = "loaded" => view'.secteurs = srvSecteurs]_vars

\* A save has succeeded: the list is not yet what the backend holds, the reload is on its way.
C15_Witness ==
  shown.kind = "saved" /\ Loads(calls) = 1 /\ view.secteurs # srvSecteurs /\ ~view.isModalOpen

\* The message an error carries: the backend's when its body has one.
MessageOf(error) ==
  IF error.response.t # "undefined" /\ error.response.data.t = "obj"
       /\ Truthy(error.response.data.message)
    THEN error.response.data.message
  ELSE error.message

\* C16: when the call of a delete or a save fails, the list, the modals and
\* the selection are as before, no reload is issued, the table is untouched,
\* and what is surfaced (an alert for delete, a thrown Error for save) is the
\* fixed prefix followed by the backend's message.
C16_FailureLeavesState ==
  [][shown'.kind \in {"alert", "thrown"} =>
       /\ view' = view
       /\ Loads(calls') = Loads(calls)
       /\ srvSecteurs' = srvSecteurs
       /\ shown'.text.v =
            <<IF shown'.kind = "alert" THEN DELETE_PREFIX ELSE SAVE_PREFIX>>
              \o MessageOf(shown'.error).v]_vars

\* A delete the backend refused with a message, the confirmation modal still open.
C16_Witness ==
  /\ shown.kind = "alert" /\ shown.error = ErrUnauthenticated
  /\ view.isDeleteModalOpen /\ Truthy(view.secteurToDelete)
  /\ Len(view.secteurs) = Len(srvSecteurs)

\* C17: a change of the sort configuration on the same column flips the
\* direction, a change to another column sets it to ascending; sorting the
\* projection again by the configuration in effect leaves it as it is.
C17_SortToggles ==
  /\ [][view'.sortConfig # view.sortConfig =>
          IF view'.sortConfig.key = view.sortConfig.key
            THEN view'.sortConfig.direction =
                   (IF view.sortConfig.direction = "asc" THEN "desc" ELSE "asc")
          ELSE view'.sortConfig.direction = "asc"]_vars
  /\ [](sort(view.filteredSecteurs, view.sortConfig) = view.filteredSecteurs)

\* Three rows shown in descending order of a column chosen after another.
C17_Witness ==
  /\ view.sortConfig = SortConfig("secteur", "desc")
  /\ Len(view.filteredSecteurs) = 3
  /\ view.filteredSecteurs # view.secteurs

\* C18: after a load has completed, the options of the filter are the
\* distinct 'secteur' values of the list just loaded, none twice.
C18_OptionsFollowLoad ==
  shown.kind = "loaded" =>
    LET options == view.filters[1].options
    IN /\ {options[i] : i \in 1..Len(options)}
            = {view.secteurs[i].secteur : i \in 1..Len(view.secteurs)}
       /\ \A i, j \in 1..Len(options) : options[i] = options[j] => i = j

\* Whether a row matches the search term and every active filter.
Matches(s) ==
  /\ view.searchTerm = EmptyString
       \/ (s.intitule.t = "str"
            /\ Includes(toLowerCase(s.intitule.v), toLowerCase(view.searchTerm.v)))
  /\ \A i \in 1..Len(view.filters) :
       view.filters[i].value # EmptyString => s[view.filters[i].key] = view.filters[i].value

\* The lower-case text a row is ordered by.
SortKey(s) ==
  IF s[view.sortConfig.key].t = "str" THEN toLowerCase(s[view.sortConfig.key].v) ELSE << >>

\* C19: the projection holds exactly the rows of the list that match the
\* search term, letter case aside, and every active filter, in the order of
\* the sort configuration; searching then filtering gives what filtering then
\* searching gives.
C19_ProjectionIsFilteredSorted ==
  /\ {view.filteredSecteurs[i] : i \in 1..Len(view.filteredSecteurs)}
       = {view.secteurs[i] : i \in {j \in 1..Len(view.secteurs) : Matches(view.secteurs[j])}}
  /\ Len(view.filteredSecteurs)
       = Cardinality({j \in 1..Len(view.secteurs) : Matches(view.secteurs[j])})
  /\ \A i, j \in 1..Len(view.filteredSecteurs) :
       i < j =>
         IF view.sortConfig.direction = "asc"
           THEN localeCompare(SortKey(view.filteredSecteurs[i]),
                              SortKey(view.filteredSecteurs[j])) <= 0
           ELSE localeCompare(SortKey(view.filteredSecteurs[i]),
                              SortKey(view.filteredSecteurs[j])) >= 0
  /\ Filter(Search(view.secteurs, view.searchTerm), view.filters)
       = Search(Filter(view.secteurs, view.filters), view.searchTerm)

\* A search in capitals under an active filter, shown in descending order.
C19_Witness ==
  /\ view.searchTerm = Str(<<"B">>)
  /\ view.filters[1].value = Str(<<"x">>)
  /\ view.sortConfig.direction = "desc"
  /\ Len(view.filteredSecteurs) = 2 /\ Len(view.secteurs) = 3

\* The response body of an error, when one was received and is an object.
BodyOf(error) ==
  IF error.response.t # "undefined" /\ error.response.data.t = "obj"
    THEN error.response.data
  ELSE Body(Undefined, Undefined)

\* The strings among the field-level messages of a body, in order.
FieldMessages(body) ==
  LET all == Flat(body.errors.values)
  IN SelectSeq(all, LAMBDA m : m.t = "str")

\* The error the priority of C21 selects for a failed request.
ByPriority(error, fallback) ==
  IF BodyOf(error).errors.t = "obj" THEN Join(FieldMessages(BodyOf(error)))
  ELSE IF BodyOf(error).message.t = "str" /\ BodyOf(error).message # EmptyString
    THEN BodyOf(error).message
  ELSE IF error.message # EmptyString THEN error.message
  ELSE fallback

Fallback(op) == IF op = "signup" THEN SIGNUP_FAILED ELSE LOGIN_FAILED

NonEmptyString(x) == x.t = "str" /\ x.v # << >>

\* C21 as stated: when a signup or login is rejected, Session.error is the
\* error the priority selects (field-level messages joined, else the body's
\* message, else the transport message, else the operation's fallback);
\* whenever the status is failed, the error is a non-empty string.
C21_ErrorByStrictPriority ==
  /\ [][(last'.phase = "rejected" /\ last'.op \in {"signup", "login"}) =>
          /\ last'.error # Null
          /\ auth'.error = ByPriority(last'.error, Fallback(last'.op))]_vars
  /\ [](auth.status = "failed" => NonEmptyString(auth.error))

\* C21, amended: when a request of a signup or login fails, Session.error is
\* the error the priority selects, or 'An unknown error occurred.' when the
\* field-level messages join to the empty string; when the requests succeed
\* and the profile is empty it is 'User data not found after <operation>.';
\* right after any thunk is rejected the status is failed and the error is a
\* non-empty string.
C21_ErrorByPriorityOrUnknown ==
  [][last'.phase = "rejected" =>
       /\ auth'.status = "failed"
       /\ NonEmptyString(auth'.error)
       /\ last'.op \in {"signup", "login"} =>
            auth'.error =
              (IF last'.error = Null
                 THEN (IF last'.op = "signup" THEN SIGNUP_NO_USER ELSE LOGIN_NO_USER)
               ELSE IF ByPriority(last'.error, Fallback(last'.op)) = EmptyString
                 THEN UNKNOWN_ERROR
               ELSE ByPriority(last'.error, Fallback(last'.op)))]_vars

\* A login the backend refused with field-level messages and a general message.
C21_Witness ==
  /\ SettledAs("login", "rejected") /\ last.error = ErrValidation
  /\ auth.error = Str(<<"The email field is invalid.", " ", "The password field is required.">>)

\* C22: when the browser restarts (tab-scoped storage emptied, durable storage
\* kept) right after a login was fulfilled, the initial Session is
\* authenticated as the logged-in user with rememberMe = true if the login
\* asked to be remembered, and anonymous if it did not.
C22_RememberMeRestores ==
  [][(SettledAs("login", "fulfilled") /\ last'.op = "restart") =>
       IF Truthy(last.rememberMe)
         THEN /\ auth'.isAuthenticated
              /\ auth'.rememberMe = Bool(TRUE)
              /\ auth'.user = auth.user
         ELSE /\ ~auth'.isAuthenticated
              /\ auth'.user = Null
              /\ auth'.rememberMe = Bool(FALSE)]_vars

\* C23: in every state of the Session, overlapping operations included,
\* isAuthenticated is true exactly when user is not null, and rememberMe is
\* true only when isAuthenticated is.
C23_AuthenticatedIffUser ==
  /\ auth.isAuthenticated <=> auth.user # Null
  /\ auth.rememberMe = Bool(TRUE) => auth.isAuthenticated

\* A remembered login rejected while another thunk is still in flight.
C23_Witness ==
  /\ SettledAs("login", "rejected") /\ Truthy(last.rememberMe) /\ last.had
  /\ thunks # {}

\* C24: when no auth thunk is in flight, some storage scope holds a user
\* record exactly when the Session is authenticated; a login or signup that
\* fails over a persisted user record leaves no such record behind.
C24_StorageAgreesWithSession ==
  thunks = {} => (Persisted(USER) <=> auth.isAuthenticated)

\* C25: under overlapping operations, whenever the status is succeeded the
\* error is null, and whenever the status is failed after a login, signup or
\* checkAuth was rejected the Session is not authenticated.
C25_SuccessCarriesNoError ==
  /\ auth.status = "succeeded" => auth.error = Null
  /\ (auth.status = "failed" /\ last.phase = "rejected"
        /\ last.op \in {"login", "signup", "checkAuth"}) => ~auth.isAuthenticated

\* C26: when the response of a getAll arrives after the response of a getAll
\* issued later has arrived, it does not replace the list: the list is the
\* response of the most recently issued getAll.
C26_NewestReloadWins ==
  [][shown'.kind = "overtaken" => view'.secteurs = view.secteurs]_vars

\* C27: when a logout, or a checkAuth that is rejected, resets an
\* authenticated Session to anonymous, the Ability in effect from then on
\* allows no action.
C27_ResetRevokesAbility ==
  [][(/\ last' # last
      /\ auth.isAuthenticated
      /\ \/ last'.op = "logoutClient"
         \/ last'.op = "logoutUser" /\ last'.phase \in {"fulfilled", "rejected"}
         \/ last'.op = "checkAuth" /\ last'.phase = "rejected"
      /\ ~auth'.isAuthenticated /\ auth'.user = Null)
       => \A a \in ActionNames : ~can(app'.ability, a)]_vars

====
